---------------------------- MODULE Spec2Model ----------------------------
(***************************************************************************)
(* Model of scripts/validate_templates.py: the driver main() and the four  *)
(* checks validate_schema, check_file_consistency, check_duplicate_names   *)
(* and check_required_thumbnails.                                          *)
(*                                                                         *)
(* Strings (template names, file names, category titles) are sequences of  *)
(* one-character strings, so that f-string concatenation, str.startswith,  *)
(* str.endswith, str.replace, str.split and str.isdigit are computed as    *)
(* Python computes them.  A message (an element of an error or warning     *)
(* list, or a printed line) is a record [kind, args]: kind names the fixed *)
(* text of the f-string and args are the interpolated strings, in order.   *)
(***************************************************************************)
EXTENDS Integers, Sequences, FiniteSets, TLC

VARIABLES
    templates_dir,       \* names of the regular files in templates/
    pc,                  \* position of main()
    index_status,        \* "unread", "parse_error" or "loaded" (index.json)
    index_data,          \* the parsed manifest (<<>> until it is loaded)
    schema_status,       \* "unread", or what loading and applying the schema gave
    is_github_actions,   \* "unread", "true" or "false" (GITHUB_ACTIONS)
    invoked,             \* the checks called so far, in call order
    schema_result,       \* what validate_schema returned
    fc_result,           \* what check_file_consistency returned, and its local sets
    dup_result,          \* what check_duplicate_names returned
    thumb_result,        \* what check_required_thumbnails returned
    all_errors,          \* main's all_errors
    all_warnings,        \* main's all_warnings
    out,                 \* the lines printed on standard output
    exit_code            \* NoExit while running, else the process exit status

vars == << templates_dir, pc, index_status, index_data, schema_status,
           is_github_actions, invoked, schema_result, fc_result, dup_result,
           thumb_result, all_errors, all_warnings, out, exit_code >>

-----------------------------------------------------------------------------
(* Bounds of the model checking run *)

MaxCats == 2
MaxEntries == 2
MaxFiles == 4

-----------------------------------------------------------------------------
(* String literals of the program *)

DotJson == << ".", "j", "s", "o", "n" >>
IndexJson == << "i", "n", "d", "e", "x" >> \o DotJson
IndexSchemaJson == << "i", "n", "d", "e", "x", ".", "s", "c", "h", "e", "m", "a" >> \o DotJson
GitIgnore == << ".", "g", "i", "t", "i", "g", "n", "o", "r", "e" >>
ReadmeMd == << "R", "E", "A", "D", "M", "E", ".", "m", "d" >>
special_files == { IndexJson, IndexSchemaJson, GitIgnore, ReadmeMd }
NoneText == << "N", "o", "n", "e" >>
UnknownText == << "U", "n", "k", "n", "o", "w", "n" >>
DigitChars == << "1", "2", "3", "4", "5", "6", "7", "8", "9" >>
IsDigitChar(c) == c \in { "0", "1", "2", "3", "4", "5", "6", "7", "8", "9" }
ThumbnailLast == 9
NoExit == -1

-----------------------------------------------------------------------------
(* The inputs the runs are drawn from *)

FluxBasic == << "f", "l", "u", "x", "_", "b", "a", "s", "i", "c" >>
AJsonB == << "a", ".", "j", "s", "o", "n", "b" >>
Webp == << "w", "e", "b", "p" >>
Png == << "p", "n", "g" >>
TitleA == << "A" >>

\* a template entry of the manifest; name <<>> stands for a missing or empty
\* 'name', mediaSubtype <<>> for a missing or empty 'mediaSubtype'
TemplateInputs ==
    { [name |-> FluxBasic, mediaSubtype |-> Webp],
      [name |-> << >>, mediaSubtype |-> Webp],
      [name |-> AJsonB, mediaSubtype |-> << >>] }

\* the non-empty 'templates' lists of a category
TemplateLists == UNION { [1..n -> TemplateInputs] : n \in 1..MaxEntries }

\* an element of the manifest array: a category object, with or without a
\* 'title', or a JSON value that is no object (isObject = FALSE)
CategoryInputs ==
    { [isObject |-> TRUE, hasTitle |-> TRUE, title |-> TitleA, templates |-> ts] :
        ts \in TemplateLists }
    \cup { [isObject |-> TRUE, hasTitle |-> FALSE, title |-> << >>, templates |-> ts] :
             ts \in TemplateLists }
    \cup { [isObject |-> FALSE, hasTitle |-> FALSE, title |-> << >>, templates |-> << >>] }

RECURSIVE CountEntries(_, _)
CountEntries(m, i) ==
    IF i > Len(m) THEN 0 ELSE Len(m[i].templates) + CountEntries(m, i + 1)

ManifestInputs ==
    UNION { { m \in [1..n -> CategoryInputs] : CountEntries(m, 1) <= MaxEntries } :
              n \in 0..MaxCats }

OtherFiles ==
    { FluxBasic \o DotJson,
      << "o", "r", "p", "h", "a", "n" >> \o DotJson,
      FluxBasic \o << "-", "1", "." >> \o Webp,
      FluxBasic \o << "-", "1", "." >> \o Png,
      FluxBasic \o << "-", "1", "0", "." >> \o Webp,
      AJsonB \o << "-", "1", "." >> \o Webp }

DirectoryInputs ==
    { d \in SUBSET (OtherFiles \cup { IndexJson, IndexSchemaJson }) :
        Cardinality(d) <= MaxFiles }

SchemaOutcomes == { "malformed", "accepts", "rejects", "rejects_at_path" }

-----------------------------------------------------------------------------
(* Python's string operations, on sequences of characters *)

\* s.startswith(p)
StartsWith(s, p) == Len(s) >= Len(p) /\ SubSeq(s, 1, Len(p)) = p

\* s.endswith(p)
EndsWith(s, p) == Len(s) >= Len(p) /\ SubSeq(s, Len(s) - Len(p) + 1, Len(s)) = p

\* s[n:]
SliceFrom(s, n) == SubSeq(s, n + 1, Len(s))

\* s.split('.')[0]
SplitDotFirst(s) ==
    LET dots == { i \in 1..Len(s) : s[i] = "." }
    IN  IF dots = {} THEN s
        ELSE SubSeq(s, 1, (CHOOSE i \in dots : \A j \in dots : i <= j) - 1)

\* s.isdigit()
IsDigit(s) == s # << >> /\ \A i \in 1..Len(s) : IsDigitChar(s[i])

\* s.replace(old, ''): every non-overlapping occurrence of old, left to right
RECURSIVE Remove(_, _)
Remove(s, old) ==
    IF Len(s) < Len(old) THEN s
    ELSE IF StartsWith(s, old) THEN Remove(SliceFrom(s, Len(old)), old)
    ELSE << s[1] >> \o Remove(Tail(s), old)

\* str(i) for the i of range(1, 10)
Str(i) == << DigitChars[i] >>

Msg(kind, args) == [kind |-> kind, args |-> args]

\* the orders in which a for loop may visit the elements of a Python set
Orders(S) ==
    { o \in [1..Cardinality(S) -> S] : \A i, j \in 1..Cardinality(S) : o[i] = o[j] => i = j }

\* [f(x) for x in o], each element becoming the message kind(x)
MsgEach(kind, o) == [i \in 1..Len(o) |-> Msg(kind, << o[i] >>)]

\* the (category, template) pairs in the order of
\*   for category in index_data: for template in category.get('templates', [])
RECURSIVE Entries(_, _)
Entries(index, i) ==
    IF i > Len(index) THEN << >>
    ELSE [k \in 1..Len(index[i].templates) |->
             [cat |-> i, category |-> index[i], template |-> index[i].templates[k]]]
         \o Entries(index, i + 1)

\* category.get raises AttributeError on an element that is no object
Raises(index) == \E i \in 1..Len(index) : ~index[i].isObject

-----------------------------------------------------------------------------
(* validate_schema *)

\* validate_schema with the except clauses returning success
validate_schema_Swallow(index, loaded) ==
    IF loaded \in { "accepts", "malformed" }
    THEN [valid |-> TRUE, errors |-> << >>]
    ELSE [valid |-> FALSE, errors |-> << Msg("Schema validation error", << >>) >>]

\* loaded is what load_json(schema_path) and jsonschema.validate give for the
\* schema file and the manifest, both inputs of the run
validate_schema(index, loaded) ==
    CASE loaded = "accepts" ->
           [valid |-> TRUE, errors |-> << >>]
      [] loaded = "rejects" ->
           [valid |-> FALSE, errors |-> << Msg("Schema validation error", << >>) >>]
      [] loaded = "rejects_at_path" ->
           [valid |-> FALSE,
            errors |-> << Msg("Schema validation error", << >>), Msg("at path", << >>) >>]
      [] OTHER ->
           [valid |-> FALSE,
            errors |-> << Msg("Unexpected error during validation", << >>) >>]

-----------------------------------------------------------------------------
(* check_file_consistency *)

\* category.get('title') inside an f-string
TitleOrNone(category) == IF category.hasTitle THEN category.title ELSE NoneText

ThumbnailName(name, i, media_subtype) == name \o << "-" >> \o Str(i) \o << "." >> \o media_subtype

\* the loop body without the continue after the 'missing name' error
CollectStep_NoContinue(acc, category, template, dir) ==
    LET name == template.name
        media_subtype == template.mediaSubtype
        probes == IF media_subtype # << >>
                  THEN { ThumbnailName(name, i, media_subtype) : i \in 1..ThumbnailLast }
                  ELSE {}
        noted == IF name = << >>
                 THEN [acc EXCEPT !.errors =
                          Append(@, Msg("Template in category missing name",
                                        << TitleOrNone(category) >>))]
                 ELSE acc
    IN  [noted EXCEPT !.referenced_workflows = @ \cup { name \o DotJson },
                      !.probed = @ \cup probes,
                      !.referenced_thumbnails = @ \cup (probes \cap dir)]

\* one iteration of the loop over the templates
CollectStep(acc, category, template, dir) ==
    LET name == template.name
        media_subtype == template.mediaSubtype
        probes == IF media_subtype # << >>
                  THEN { ThumbnailName(name, i, media_subtype) : i \in 1..ThumbnailLast }
                  ELSE {}
    IN  IF name = << >>
        THEN [acc EXCEPT !.errors =
                 Append(@, Msg("Template in category missing name", << TitleOrNone(category) >>))]
        ELSE [acc EXCEPT !.referenced_workflows = @ \cup { name \o DotJson },
                         !.probed = @ \cup probes,
                         !.referenced_thumbnails = @ \cup (probes \cap dir)]

RECURSIVE CollectLoop(_, _, _, _)
CollectLoop(acc, entries, k, dir) ==
    IF k > Len(entries) THEN acc
    ELSE CollectLoop(CollectStep(acc, entries[k].category, entries[k].template, dir),
                     entries, k + 1, dir)

CollectReferenced(index, dir) ==
    CollectLoop([errors |-> << >>, referenced_workflows |-> {},
                 referenced_thumbnails |-> {}, probed |-> {}],
                Entries(index, 1), 1, dir)

\* the existence test left out
NotFound_All(referenced, dir) == referenced

\* the referenced files whose path does not exist
NotFound(referenced, dir) == { f \in referenced : f \notin dir }

all_files(dir) == dir \ special_files
workflow_files(dir) == { f \in all_files(dir) : EndsWith(f, DotJson) }
media_files(dir) == all_files(dir) \ workflow_files(dir)
orphaned_workflows(dir, referenced_workflows) == workflow_files(dir) \ referenced_workflows

\* the inner loop over [w.replace('.json', '') for w in referenced_workflows]
IsReferenced(media_file, referenced_workflows) ==
    \E w \in referenced_workflows :
        LET template_name == Remove(w, DotJson)
        IN  /\ StartsWith(media_file, template_name \o << "-" >>)
            /\ IsDigit(SplitDotFirst(SliceFrom(media_file, Len(template_name) + 1)))

\* is_referenced never set
potential_orphans_All(dir, referenced_workflows) == media_files(dir)

potential_orphans(dir, referenced_workflows) ==
    { f \in media_files(dir) : ~IsReferenced(f, referenced_workflows) }

\* warnings counted as failures
ConsistencyValid_NoWarnings(errors, warnings) == Len(errors) = 0 /\ Len(warnings) = 0

\* the first element of the returned tuple
ConsistencyValid(errors, warnings) == Len(errors) = 0

\* the results check_file_consistency can return, one for each order in which
\* its four loops over sets visit their elements
check_file_consistency(index, dir) ==
    LET acc == CollectReferenced(index, dir)
        refs == acc.referenced_workflows
    IN  { LET errors == acc.errors
                        \o MsgEach("Referenced workflow file not found", o1)
                        \o MsgEach("Referenced thumbnail file not found", o2)
              warnings == MsgEach("Workflow file not referenced in index.json", o3)
                          \o MsgEach("Media file not referenced in index.json", o4)
          IN  [done |-> TRUE, valid |-> ConsistencyValid(errors, warnings),
               errors |-> errors, warnings |-> warnings,
               referenced_workflows |-> refs,
               referenced_thumbnails |-> acc.referenced_thumbnails,
               probed |-> acc.probed] :
            o1 \in Orders(NotFound(refs, dir)),
            o2 \in Orders(NotFound(acc.referenced_thumbnails, dir)),
            o3 \in Orders(orphaned_workflows(dir, refs)),
            o4 \in Orders(potential_orphans(dir, refs)) }

-----------------------------------------------------------------------------
(* check_duplicate_names *)

\* category.get('title', 'Unknown')
TitleOrUnknown(category) == IF category.hasTitle THEN category.title ELSE UnknownText

\* seen_names is the set of its (name, title) items
SeenTitle(seen_names, name) == (CHOOSE p \in seen_names : p[1] = name)[2]

\* the message built from the current category twice
DuplicateStep_CurrentTwice(acc, category, template) ==
    LET category_title == TitleOrUnknown(category)
        name == template.name
    IN  IF \E p \in acc.seen_names : p[1] = name
        THEN [acc EXCEPT !.errors =
                 Append(@, Msg("Duplicate template name found in categories",
                               << name, category_title, category_title >>))]
        ELSE [acc EXCEPT !.seen_names = @ \cup { << name, category_title >> }]

DuplicateStep(acc, category, template) ==
    LET category_title == TitleOrUnknown(category)
        name == template.name
    IN  IF \E p \in acc.seen_names : p[1] = name
        THEN [acc EXCEPT !.errors =
                 Append(@, Msg("Duplicate template name found in categories",
                               << name, SeenTitle(acc.seen_names, name), category_title >>))]
        ELSE [acc EXCEPT !.seen_names = @ \cup { << name, category_title >> }]

RECURSIVE DuplicateLoop(_, _, _)
DuplicateLoop(acc, entries, k) ==
    IF k > Len(entries) THEN acc
    ELSE DuplicateLoop(DuplicateStep(acc, entries[k].category, entries[k].template),
                       entries, k + 1)

check_duplicate_names(index) ==
    LET acc == DuplicateLoop([errors |-> << >>, seen_names |-> {}], Entries(index, 1), 1)
    IN  [done |-> TRUE, valid |-> Len(acc.errors) = 0, errors |-> acc.errors]

-----------------------------------------------------------------------------
(* check_required_thumbnails *)

\* 'and' in place of 'or' in the test that skips a template
ThumbnailStep_And(errors, template, dir) ==
    LET name == template.name
        media_subtype == template.mediaSubtype
        thumbnail_1 == ThumbnailName(name, 1, media_subtype)
    IN  IF name = << >> /\ media_subtype = << >> THEN errors
        ELSE IF thumbnail_1 \notin dir
        THEN Append(errors, Msg("Missing required thumbnail", << thumbnail_1 >>))
        ELSE errors

ThumbnailStep(errors, template, dir) ==
    LET name == template.name
        media_subtype == template.mediaSubtype
        thumbnail_1 == ThumbnailName(name, 1, media_subtype)
    IN  IF name = << >> \/ media_subtype = << >> THEN errors
        ELSE IF thumbnail_1 \notin dir
        THEN Append(errors, Msg("Missing required thumbnail", << thumbnail_1 >>))
        ELSE errors

RECURSIVE ThumbnailLoop(_, _, _, _)
ThumbnailLoop(errors, entries, k, dir) ==
    IF k > Len(entries) THEN errors
    ELSE ThumbnailLoop(ThumbnailStep(errors, entries[k].template, dir), entries, k + 1, dir)

check_required_thumbnails(index, dir) ==
    LET errors == ThumbnailLoop(<< >>, Entries(index, 1), 1, dir)
    IN  [done |-> TRUE, valid |-> Len(errors) = 0, errors |-> errors]

-----------------------------------------------------------------------------
(* main *)

Line(text, msg) == [line |-> text, kind |-> msg.kind, args |-> msg.args]
Text(text) == [line |-> text, kind |-> "", args |-> << >>]

NotRun == [done |-> FALSE, valid |-> FALSE, errors |-> << >>]
ConsistencyNotRun ==
    [done |-> FALSE, valid |-> FALSE, errors |-> << >>, warnings |-> << >>,
     referenced_workflows |-> {}, referenced_thumbnails |-> {}, probed |-> {}]

\* the summary failing on warnings too
ExitCodeFor_WarningsFail(errors, warnings) ==
    IF Len(errors) > 0 \/ Len(warnings) > 0 THEN 1 ELSE 0

\* the value of the summary's if all_errors: ... return 1 / else: ... return 0
ExitCodeFor(errors, warnings) == IF Len(errors) > 0 THEN 1 ELSE 0

Init ==
    /\ templates_dir \in DirectoryInputs
    /\ pc = "start"
    /\ index_status = "unread"
    /\ index_data = << >>
    /\ schema_status = "unread"
    /\ is_github_actions = "unread"
    /\ invoked = << >>
    /\ schema_result = NotRun
    /\ fc_result = ConsistencyNotRun
    /\ dup_result = NotRun
    /\ thumb_result = NotRun
    /\ all_errors = << >>
    /\ all_warnings = << >>
    /\ out = << >>
    /\ exit_code = NoExit

\* lines 173-179: the banner, then the test that index.json exists
CheckIndexExists ==
    /\ pc = "start"
    /\ IF IndexJson \notin templates_dir
       THEN /\ out' = << Text("Validating ComfyUI Workflow Templates..."),
                         Text("Templates directory"),
                         Text("Error: index.json not found") >>
            /\ exit_code' = 1
            /\ pc' = "returned"
       ELSE /\ out' = << Text("Validating ComfyUI Workflow Templates..."),
                         Text("Templates directory") >>
            /\ exit_code' = exit_code
            /\ pc' = "schema_exists"
    /\ UNCHANGED << templates_dir, index_status, index_data, schema_status,
                    is_github_actions, invoked, schema_result, fc_result, dup_result,
                    thumb_result, all_errors, all_warnings >>

\* lines 181-183
CheckSchemaExists ==
    /\ pc = "schema_exists"
    /\ IF IndexSchemaJson \notin templates_dir
       THEN /\ out' = Append(out, Text("Error: index.schema.json not found"))
            /\ exit_code' = 1
            /\ pc' = "returned"
       ELSE /\ out' = out
            /\ exit_code' = exit_code
            /\ pc' = "load_index"
    /\ UNCHANGED << templates_dir, index_status, index_data, schema_status,
                    is_github_actions, invoked, schema_result, fc_result, dup_result,
                    thumb_result, all_errors, all_warnings >>

\* lines 185-193: load_json(index_path) either raises or gives the manifest
LoadIndex ==
    /\ pc = "load_index"
    /\ \E parses \in BOOLEAN :
         IF ~parses
         THEN /\ index_status' = "parse_error"
              /\ index_data' = index_data
              /\ out' = Append(out, Text("Error loading index.json"))
              /\ exit_code' = 1
              /\ pc' = "returned"
         ELSE /\ index_status' = "loaded"
              /\ index_data' \in ManifestInputs
              /\ out' = out
              /\ exit_code' = exit_code
              /\ pc' = "validate_schema"
    /\ UNCHANGED << templates_dir, schema_status, is_github_actions, invoked,
                    schema_result, fc_result, dup_result, thumb_result,
                    all_errors, all_warnings >>

\* lines 196-202
RunValidateSchema ==
    /\ pc = "validate_schema"
    /\ \E loaded \in SchemaOutcomes :
         LET r == validate_schema(index_data, loaded)
         IN  /\ schema_status' = loaded
             /\ schema_result' = [done |-> TRUE, valid |-> r.valid, errors |-> r.errors]
             /\ all_errors' = IF r.valid THEN all_errors ELSE all_errors \o r.errors
             /\ out' = out \o << Text("1 Validating against JSON schema..."),
                                 IF r.valid THEN Text("Schema validation passed")
                                            ELSE Text("Schema validation failed") >>
    /\ invoked' = Append(invoked, "validate_schema")
    /\ pc' = "check_file_consistency"
    /\ UNCHANGED << templates_dir, index_status, index_data, is_github_actions,
                    fc_result, dup_result, thumb_result, all_warnings, exit_code >>

\* lines 204-213; an exception raised inside the check is caught nowhere and
\* ends the interpreter with status 1
RunCheckFileConsistency ==
    /\ pc = "check_file_consistency"
    /\ invoked' = Append(invoked, "check_file_consistency")
    /\ IF Raises(index_data)
       THEN /\ pc' = "raised"
            /\ exit_code' = 1
            /\ out' = Append(out, Text("2 Checking file consistency..."))
            /\ UNCHANGED << fc_result, all_errors, all_warnings >>
       ELSE /\ fc_result' \in check_file_consistency(index_data, templates_dir)
            /\ all_errors' = all_errors \o fc_result'.errors
            /\ all_warnings' = all_warnings \o fc_result'.warnings
            /\ out' = out \o << Text("2 Checking file consistency..."),
                                IF fc_result'.valid /\ Len(fc_result'.warnings) = 0
                                THEN Text("File consistency check passed")
                                ELSE IF fc_result'.valid
                                THEN Text("File consistency check passed with warnings")
                                ELSE Text("File consistency check failed") >>
            /\ pc' = "check_duplicate_names"
            /\ exit_code' = exit_code
    /\ UNCHANGED << templates_dir, index_status, index_data, schema_status,
                    is_github_actions, schema_result, dup_result, thumb_result >>

\* lines 215-221
RunCheckDuplicateNames ==
    /\ pc = "check_duplicate_names"
    /\ invoked' = Append(invoked, "check_duplicate_names")
    /\ dup_result' = check_duplicate_names(index_data)
    /\ all_errors' = IF dup_result'.valid THEN all_errors
                     ELSE all_errors \o dup_result'.errors
    /\ out' = out \o << Text("3 Checking for duplicate names..."),
                        IF dup_result'.valid THEN Text("No duplicate names found")
                                             ELSE Text("Duplicate names found") >>
    /\ pc' = "check_required_thumbnails"
    /\ UNCHANGED << templates_dir, index_status, index_data, schema_status,
                    is_github_actions, schema_result, fc_result, thumb_result,
                    all_warnings, exit_code >>

\* lines 223-229
RunCheckRequiredThumbnails ==
    /\ pc = "check_required_thumbnails"
    /\ invoked' = Append(invoked, "check_required_thumbnails")
    /\ thumb_result' = check_required_thumbnails(index_data, templates_dir)
    /\ all_errors' = IF thumb_result'.valid THEN all_errors
                     ELSE all_errors \o thumb_result'.errors
    /\ out' = out \o << Text("4 Checking required thumbnails..."),
                        IF thumb_result'.valid THEN Text("All templates have thumbnails")
                                               ELSE Text("Missing thumbnails") >>
    /\ pc' = "report"
    /\ UNCHANGED << templates_dir, index_status, index_data, schema_status,
                    is_github_actions, schema_result, fc_result, dup_result,
                    all_warnings, exit_code >>

\* the lines printed for one collected message, with its annotation under
\* GitHub Actions
Annotated(text, annotation, msgs, gha) ==
    IF gha
    THEN [i \in 1..(2 * Len(msgs)) |->
             IF i % 2 = 1 THEN Line(text, msgs[(i + 1) \div 2])
                          ELSE Line(annotation, msgs[i \div 2])]
    ELSE [i \in 1..Len(msgs) |-> Line(text, msgs[i])]

\* lines 231-255; GITHUB_ACTIONS (line 164) is only used here
Report ==
    /\ pc = "report"
    /\ \E gha \in BOOLEAN :
         /\ is_github_actions' = IF gha THEN "true" ELSE "false"
         /\ out' = out
                   \o (IF Len(all_warnings) > 0
                       THEN << Text("Warnings:") >>
                            \o Annotated("warning", "::warning file=templates/index.json::",
                                         all_warnings, gha)
                       ELSE << >>)
                   \o << Text("==================================================") >>
                   \o (IF Len(all_errors) > 0
                       THEN << Text("Validation failed with error(s)") >>
                            \o Annotated("error", "::error file=templates/index.json::",
                                         all_errors, gha)
                       ELSE IF Len(all_warnings) > 0
                       THEN << Text("All validations passed with warning(s)!") >>
                       ELSE << Text("All validations passed!") >>)
    /\ exit_code' = ExitCodeFor(all_errors, all_warnings)
    /\ pc' = "returned"
    /\ UNCHANGED << templates_dir, index_status, index_data, schema_status, invoked,
                    schema_result, fc_result, dup_result, thumb_result,
                    all_errors, all_warnings >>

Next ==
    \/ CheckIndexExists
    \/ CheckSchemaExists
    \/ LoadIndex
    \/ RunValidateSchema
    \/ RunCheckFileConsistency
    \/ RunCheckDuplicateNames
    \/ RunCheckRequiredThumbnails
    \/ Report

Spec == Init /\ [][Next]_vars

TypeOK ==
    /\ pc \in { "start", "schema_exists", "load_index", "validate_schema",
                "check_file_consistency", "check_duplicate_names",
                "check_required_thumbnails", "report", "returned", "raised" }
    /\ exit_code \in { NoExit, 0, 1 }
    /\ (exit_code # NoExit) <=> (pc \in { "returned", "raised" })

-----------------------------------------------------------------------------
(* Vocabulary of the properties; es is the sequence of manifest entries *)

Range(s) == { s[i] : i \in DOMAIN s }
Count(s, x) == Cardinality({ i \in DOMAIN s : s[i] = x })
OfKind(s, kind) == { i \in DOMAIN s : s[i].kind = kind }
\* the k-th smallest element of a set of numbers
Nth(S, k) == CHOOSE i \in S : Cardinality({ j \in S : j <= i }) = k

ManifestEntries == Entries(index_data, 1)
AllNames(es) == { es[i].template.name : i \in DOMAIN es }
NonEmptyNames(es) == AllNames(es) \ { << >> }
AllChecks == << "validate_schema", "check_file_consistency",
                "check_duplicate_names", "check_required_thumbnails" >>
Ended == pc \in { "returned", "raised" }
FluxBasicPng == FluxBasic \o << "-", "1", "." >> \o Png
OrphanMedia(f) == Msg("Media file not referenced in index.json", << f >>)
OrphanWorkflow(f) == Msg("Workflow file not referenced in index.json", << f >>)
WorkflowNotFound(f) == Msg("Referenced workflow file not found", << f >>)
FluxBasicDeclaredWebp ==
    \E c \in DOMAIN index_data : \E t \in DOMAIN index_data[c].templates :
        /\ index_data[c].templates[t].name = FluxBasic
        /\ index_data[c].templates[t].mediaSubtype = Webp

-----------------------------------------------------------------------------
(* C1 *)

\* C1: when main returns after the manifest has loaded, the exit code is 0
\* exactly when the four checks returned no error at all; warnings do not count.
C1_ExitCodeIffNoErrors ==
    (pc = "returned" /\ index_status = "loaded") =>
        /\ (exit_code = 0) <=>
              (schema_result.errors \o fc_result.errors
                 \o dup_result.errors \o thumb_result.errors = << >>)
        /\ exit_code \in { 0, 1 }

\* C1 witness: a run that returned 0 although it collected warnings
C1_Witness ==
    /\ pc = "returned" /\ index_status = "loaded"
    /\ exit_code = 0
    /\ Len(all_warnings) > 0

-----------------------------------------------------------------------------
(* C2 *)

\* C2 as stated: an absent manifest or schema file, or either of them failing
\* to parse, makes the run exit 1 without executing any of the four checks.
C2_FatalInputRunsNoCheck ==
    (\/ IndexJson \notin templates_dir
     \/ IndexSchemaJson \notin templates_dir
     \/ index_status = "parse_error"
     \/ schema_status = "malformed") =>
        /\ invoked = << >>
        /\ Ended => exit_code = 1

\* C2 as amended: an absent manifest or schema file, or a manifest that fails
\* to parse, is reported at once, the run returns 1 and no check is executed;
\* a schema file that fails to parse is met inside validate_schema, which
\* returns it as one error, the driver goes on to check_file_consistency, and
\* the run ends with exit code 1.
C2_FatalInputAmended ==
    /\ (\/ IndexJson \notin templates_dir
        \/ IndexSchemaJson \notin templates_dir
        \/ index_status = "parse_error") =>
           /\ invoked = << >>
           /\ Ended =>
                /\ pc = "returned" /\ exit_code = 1
                /\ out[Len(out)] =
                      IF IndexJson \notin templates_dir
                      THEN Text("Error: index.json not found")
                      ELSE IF IndexSchemaJson \notin templates_dir
                      THEN Text("Error: index.schema.json not found")
                      ELSE Text("Error loading index.json")
                /\ Len(out) = 3
    /\ schema_status = "malformed" =>
           /\ invoked # << >> /\ invoked[1] = "validate_schema"
           /\ ~schema_result.valid
           /\ schema_result.errors = << Msg("Unexpected error during validation", << >>) >>
           /\ all_errors # << >> /\ all_errors[1] = schema_result.errors[1]
           /\ Ended =>
                /\ exit_code = 1
                /\ Len(invoked) >= 2 /\ invoked[2] = "check_file_consistency"
           /\ pc = "returned" => invoked = AllChecks

\* C2 witness: a run with an unparseable schema that ran all four checks
C2_Witness ==
    /\ schema_status = "malformed"
    /\ pc = "returned"
    /\ invoked = AllChecks

-----------------------------------------------------------------------------
(* C3 *)

\* C3 as stated: once the manifest has loaded the run invokes all four checks
\* in order, whatever the manifest, and the final lists are the concatenation
\* of what the checks returned.
C3_AllChecksAlwaysRun ==
    (index_status = "loaded" /\ Ended) =>
        /\ invoked = AllChecks
        /\ all_errors = schema_result.errors \o fc_result.errors
                          \o dup_result.errors \o thumb_result.errors
        /\ all_warnings = fc_result.warnings

-----------------------------------------------------------------------------
(* C4 *)

RepeatEntries(es) ==
    { i \in DOMAIN es : \E j \in 1..(i - 1) : es[j].template.name = es[i].template.name }
FirstOccurrence(es, i) ==
    CHOOSE j \in 1..i : /\ es[j].template.name = es[i].template.name
                        /\ \A h \in 1..(j - 1) : es[h].template.name # es[i].template.name
ShownTitle(category) == IF category.hasTitle THEN category.title ELSE UnknownText

\* C4: check_duplicate_names returns one error for each entry whose name
\* occurred earlier in manifest order and none for a first occurrence (so as
\* many errors as entries minus distinct names); the k-th error names the
\* repeated name, the title of the category of its first occurrence and the
\* title of the category of the repeat (a category without title is shown as
\* 'Unknown').
C4_DuplicateErrors ==
    dup_result.done =>
        LET es == ManifestEntries
            repeats == RepeatEntries(es)
        IN  /\ Len(dup_result.errors) = Len(es) - Cardinality(AllNames(es))
            /\ Len(dup_result.errors) = Cardinality(repeats)
            /\ dup_result.valid <=> (repeats = {})
            /\ \A k \in DOMAIN dup_result.errors :
                  LET i == Nth(repeats, k)
                  IN  dup_result.errors[k] =
                         Msg("Duplicate template name found in categories",
                             << es[i].template.name,
                                ShownTitle(es[FirstOccurrence(es, i)].category),
                                ShownTitle(es[i].category) >>)

\* C4 witness: a name repeated in a second category whose title differs
C4_Witness ==
    /\ dup_result.done
    /\ LET es == ManifestEntries
       IN  \E i \in RepeatEntries(es) :
              /\ es[i].cat # es[FirstOccurrence(es, i)].cat
              /\ es[FirstOccurrence(es, i)].category.hasTitle
              /\ ~es[i].category.hasTitle
              /\ es[i].template.name # << >>

-----------------------------------------------------------------------------
(* C5 *)

FirstThumbnail(template) == template.name \o << "-", "1", "." >> \o template.mediaSubtype
LacksFirstThumbnail(es) ==
    { i \in DOMAIN es :
        /\ es[i].template.name # << >> /\ es[i].template.mediaSubtype # << >>
        /\ FirstThumbnail(es[i].template) \notin templates_dir }

\* C5: check_required_thumbnails returns exactly one error, naming T-1.m, for
\* each entry with non-empty name T and non-empty mediaSubtype m whose file
\* T-1.m is absent, in manifest order, and no other error: none for an entry
\* whose file exists, none for an entry with an empty name or mediaSubtype.
C5_RequiredThumbnailErrors ==
    thumb_result.done =>
        LET es == ManifestEntries
            lacking == LacksFirstThumbnail(es)
        IN  /\ Len(thumb_result.errors) = Cardinality(lacking)
            /\ \A k \in DOMAIN thumb_result.errors :
                  thumb_result.errors[k] =
                     Msg("Missing required thumbnail",
                         << FirstThumbnail(es[Nth(lacking, k)].template) >>)
            /\ \A i \in DOMAIN es :
                  (es[i].template.name = << >> \/ es[i].template.mediaSubtype = << >>) =>
                     \A e \in Range(thumb_result.errors) :
                         e.args # << FirstThumbnail(es[i].template) >>
            /\ thumb_result.valid <=> (lacking = {})

\* C5 witness: one entry lacks its first thumbnail, another has no mediaSubtype
C5_Witness ==
    /\ thumb_result.done
    /\ LET es == ManifestEntries
       IN  /\ LacksFirstThumbnail(es) # {}
           /\ \E i \in DOMAIN es :
                 es[i].template.name # << >> /\ es[i].template.mediaSubtype = << >>

-----------------------------------------------------------------------------
(* C6 *)

\* C6 as stated: with flux_basic declared as webp, the file flux_basic-1.png
\* is warned about as an orphaned media file.
C6_WrongExtensionWarned ==
    (fc_result.done /\ FluxBasicPng \in templates_dir /\ FluxBasicDeclaredWebp) =>
        OrphanMedia(FluxBasicPng) \in Range(fc_result.warnings)

\* C6 as amended: with flux_basic declared as webp, no warning and no error
\* is returned for the file flux_basic-1.png: the orphan test accepts
\* flux_basic-<digits> whatever the extension.
C6_WrongExtensionAccepted ==
    (fc_result.done /\ FluxBasicPng \in templates_dir /\ FluxBasicDeclaredWebp) =>
        /\ \A w \in Range(fc_result.warnings) : w.args # << FluxBasicPng >>
        /\ \A e \in Range(fc_result.errors) : e.args # << FluxBasicPng >>

\* C6 witness: the check has returned for such a manifest and directory
C6_Witness ==
    /\ fc_result.done
    /\ FluxBasicDeclaredWebp
    /\ FluxBasicPng \in templates_dir

-----------------------------------------------------------------------------
(* C7 *)

\* C7: for each distinct non-empty template name n, check_file_consistency
\* returns the error 'referenced workflow file not found: n.json' once if
\* n.json is absent and never if it exists, however often n occurs; and with
\* any such error the success flag is false.
C7_WorkflowNotFoundErrors ==
    fc_result.done =>
        /\ \A n \in NonEmptyNames(ManifestEntries) :
              Count(fc_result.errors, WorkflowNotFound(n \o DotJson)) =
                 IF n \o DotJson \in templates_dir THEN 0 ELSE 1
        /\ OfKind(fc_result.errors, "Referenced workflow file not found") # {}
              => ~fc_result.valid

\* C7 witness: a name that occurs in two entries and whose workflow is absent
C7_Witness ==
    /\ fc_result.done
    /\ LET es == ManifestEntries
       IN  \E i, j \in DOMAIN es :
              /\ i # j /\ es[i].template.name = es[j].template.name
              /\ es[i].template.name # << >>
              /\ es[i].template.name \o DotJson \notin templates_dir

-----------------------------------------------------------------------------
(* C8 *)

NamelessEntries(es) == { i \in DOMAIN es : es[i].template.name = << >> }

\* C8: for each entry without a name check_file_consistency returns exactly
\* one 'missing name' error, naming the title of the enclosing category (None
\* if it has no title); the entry adds nothing to the referenced workflows or
\* thumbnails and no path is probed for it, whatever its mediaSubtype.
C8_NamelessEntries ==
    fc_result.done =>
        LET es == ManifestEntries
            nameless == NamelessEntries(es)
            missing == OfKind(fc_result.errors, "Template in category missing name")
        IN  /\ Cardinality(missing) = Cardinality(nameless)
            /\ \A k \in 1..Cardinality(missing) :
                  LET c == es[Nth(nameless, k)].category
                  IN  fc_result.errors[Nth(missing, k)].args =
                         << IF c.hasTitle THEN c.title ELSE NoneText >>
            /\ fc_result.referenced_workflows = { n \o DotJson : n \in NonEmptyNames(es) }
            /\ fc_result.probed =
                  UNION { { es[i].template.name \o << "-", d, "." >>
                              \o es[i].template.mediaSubtype : d \in Range(DigitChars) } :
                          i \in { j \in DOMAIN es :
                                    /\ es[j].template.name # << >>
                                    /\ es[j].template.mediaSubtype # << >> } }
            /\ fc_result.referenced_thumbnails \subseteq fc_result.probed
            /\ WorkflowNotFound(DotJson) \notin Range(fc_result.errors)

\* C8 witness: a nameless entry that declares a mediaSubtype, in a titled category
C8_Witness ==
    /\ fc_result.done
    /\ LET es == ManifestEntries
       IN  \E i \in NamelessEntries(es) :
              es[i].template.mediaSubtype # << >> /\ es[i].category.hasTitle

-----------------------------------------------------------------------------
(* C9 *)

UnreferencedWorkflowFiles(es) ==
    { f \in templates_dir :
        /\ EndsWith(f, DotJson)
        /\ f \notin special_files
        /\ f \notin { n \o DotJson : n \in NonEmptyNames(es) } }

\* C9: each .json file of the directory that is neither special nor n.json
\* for a non-empty template name n gets exactly one warning and causes no
\* error, and the success flag is true exactly when the error list is empty.
C9_OrphanedWorkflowWarnings ==
    fc_result.done =>
        /\ \A f \in UnreferencedWorkflowFiles(ManifestEntries) :
              /\ Count(fc_result.warnings, OrphanWorkflow(f)) = 1
              /\ \A e \in Range(fc_result.errors) : e.args # << f >>
        /\ fc_result.valid <=> (fc_result.errors = << >>)

\* C9 witness: an orphaned workflow file, no error, the flag true
C9_Witness ==
    /\ fc_result.done
    /\ UnreferencedWorkflowFiles(ManifestEntries) # {}
    /\ fc_result.errors = << >>
    /\ fc_result.valid

-----------------------------------------------------------------------------
(* C10 *)

MatchesTemplateName(f, names) ==
    \E n \in names :
        /\ StartsWith(f, n \o << "-" >>)
        /\ IsDigit(SplitDotFirst(SliceFrom(f, Len(n) + 1)))

\* C10 as stated: a non-special file that does not end in .json gets the
\* orphaned-media warning exactly when no non-empty template name n of the
\* manifest makes it n-<digits> up to the first '.'.
C10_OrphanMediaIffNoMatch ==
    fc_result.done =>
        LET names == NonEmptyNames(ManifestEntries)
        IN  \A f \in templates_dir :
               (f \notin special_files /\ ~EndsWith(f, DotJson)) =>
                  (OrphanMedia(f) \in Range(fc_result.warnings)
                     <=> ~MatchesTemplateName(f, names))

=============================================================================
